---------------------------- MODULE Spec2Model ----------------------------
(***************************************************************************)
(* Key lifecycle management of the PKCS#11 provider                        *)
(* (src/providers/pkcs11_provider/key_management.rs).                      *)
(*                                                                         *)
(* Worker threads call generate / import / export / destroy.  The key info *)
(* store (key_info_store) and the local identifier set (local_ids) are     *)
(* shared and each guarded by a read-write lock; the token (PKCS#11        *)
(* backend), the session provider and the key info manager are             *)
(* collaborators whose calls may fail.                                     *)
(***************************************************************************)
EXTENDS Integers, Sequences, FiniteSets

\* ------------------------------------------------------------- bounds
NumThreads == 2
NumTriples == 2
NumIds == 2
\* longest modulus, in content bytes, of the import specification
MaxLen == 2

Threads == 1..NumThreads
Triples == 1..NumTriples
\* the values rand::random::<[u8; 4]>() can draw
Ids == 1..NumIds

\* key_id before create_key_id or get_key_info has assigned it
NoId == 0

\* ------------------------------------------------------------- state
VARIABLES
    store,       \* key_info_store: KeyTriple -> KeyInfo (partial function)
    local_ids,   \* local_ids: the LocalIdStore set
    objects,     \* the objects held by the token
    store_lock,  \* RwLock of key_info_store: [w |-> writers, r |-> readers]
    ids_lock,    \* RwLock of local_ids: the threads holding write access
    pc,          \* per thread: position in the running call
    op,          \* per thread: the operation called and its arguments
    key_id,      \* per thread: local key_id
    result,      \* per thread: the ResponseStatus the call returns
    session,     \* per thread: whether the call holds an open Session
    found,       \* per thread: objects returned by find_objects
    findres,     \* per thread: outcome of the last find_key
    round,       \* per thread: which find_key of the call is running
    cmds,        \* per thread: token commands issued by the running call
    srch,        \* per thread: a search is initialised on the session
    out,         \* per thread: the key data export returned
    imported     \* history: Key Triple -> the key data of its successful import

shared == <<store, local_ids, objects, imported>>
locks == <<store_lock, ids_lock>>
locals == <<key_id, result, session, found, findres, round, cmds, srch, out>>
vars == <<store, local_ids, objects, store_lock, ids_lock, pc, op, key_id,
          result, session, found, findres, round, cmds, srch, out, imported>>

\* ------------------------------------------------------------- data
\* psa_key_attributes::Type, as far as the provider distinguishes it
KeyTypes == {"RsaKeyPair", "RsaPublicKey"}

\* An ASN.1 INTEGER is held as its content bytes (big-endian two's
\* complement), as picky_asn1::wrapper::IntegerAsn1 holds it.
NoData == [wf |-> FALSE, n |-> <<>>, e |-> <<>>]

\* IntegerAsn1::is_negative
IsNegative(b) ==
    IF Len(b) > 1 /\ b[1] = 0 THEN FALSE
    ELSE IF Len(b) = 0 THEN TRUE
    ELSE b[1] >= 128

\* IntegerAsn1::as_unsigned_bytes_be: one leading zero byte is dropped
AsUnsignedBytesBe(b) ==
    IF Len(b) > 1 /\ b[1] = 0 THEN Tail(b) ELSE b

\* IntegerAsn1::from_unsigned_bytes_be: a zero byte is put in front when the
\* most significant bit is set
FromUnsignedBytesBe(b) ==
    IF Len(b) > 0 /\ b[1] >= 128 THEN <<0>> \o b ELSE b

\* The modulus and exponent the token chooses for a generated key pair.
TokenModulus == <<193, 7>>
TokenExponent == <<1, 0, 1>>

\* Import inputs of the lifecycle specification: undecodable bytes, a
\* negative modulus, a well-formed key with attributes.bits left at 0, and a
\* well-formed key whose attributes.bits differ from its size.
Garbage == [wf |-> FALSE, n |-> <<>>, e |-> <<>>]
KeyNegModulus == [wf |-> TRUE, n |-> <<128>>, e |-> <<3>>]
KeyOneByte == [wf |-> TRUE, n |-> <<0, 129>>, e |-> <<3>>]
KeyTwoBytes == [wf |-> TRUE, n |-> <<1, 1>>, e |-> <<3>>]
LifecycleImports ==
    {<<Garbage, 0>>, <<KeyNegModulus, 0>>, <<KeyOneByte, 0>>, <<KeyTwoBytes, 8>>}

\* Import inputs of the import specification: undecodable bytes; every DER
\* INTEGER of up to MaxLen content bytes over ByteSamples as modulus, with
\* attributes.bits zero or around each whole number of bytes; and a positive,
\* a sign-padded and a negative public exponent.
ByteSamples == {0, 127, 128, 255}
ByteStrings(k) == UNION {[1..m -> ByteSamples] : m \in 1..k}
\* DER: an INTEGER carries no redundant leading 0x00 or 0xFF byte
MinimalDer(b) ==
    \/ Len(b) = 1
    \/ /\ ~(b[1] = 0 /\ b[2] < 128)
       /\ ~(b[1] = 255 /\ b[2] >= 128)
ImportModuli == {b \in ByteStrings(MaxLen) : MinimalDer(b)}
ImportExponents == {<<3>>, <<0, 255>>, <<128>>}
ImportBits == {0} \cup {8 * k - 1 : k \in 1..MaxLen} \cup {8 * k : k \in 1..MaxLen}
ImportInputs ==
    {<<Garbage, 0>>}
    \cup {<<[wf |-> TRUE, n |-> n, e |-> <<3>>], b>> :
            n \in ImportModuli, b \in ImportBits}
    \cup {<<[wf |-> TRUE, n |-> <<0, 128>>, e |-> e], 0>> : e \in ImportExponents}

NoOp == [kind |-> "none", triple |-> 0, key_type |-> "none", bits |-> 0,
         data |-> NoData]

GenerateOps ==
    [kind : {"generate"}, triple : Triples, key_type : KeyTypes,
     bits : {0}, data : {NoData}]
\* imports: a key of the wrong type, and each <<data, bits>> of `inputs`
ImportOps(trs, inputs) ==
    [kind : {"import"}, triple : trs, key_type : {"RsaKeyPair"},
     bits : {0}, data : {NoData}]
    \cup {[kind |-> "import", triple |-> tr, key_type |-> "RsaPublicKey",
           bits |-> i[2], data |-> i[1]] : tr \in trs, i \in inputs}
ExportOps(trs) ==
    [kind : {"export"}, triple : trs, key_type : {"none"},
     bits : {0}, data : {NoData}]
DestroyOps ==
    [kind : {"destroy"}, triple : Triples, key_type : {"none"},
     bits : {0}, data : {NoData}]

\* KeyInfo { id: key_id.to_vec(), attributes }
KeyInfo(id, idlen, o) ==
    [id |-> id, idlen |-> idlen,
     attributes |-> [key_type |-> o.key_type, bits |-> o.bits]]

NoOut == [n |-> <<>>, e |-> <<>>]

\* ------------------------------------------------------------- collaborators
\* ManageKeyInfo::exists
StoreExists(tr) == tr \in DOMAIN store

\* ManageKeyInfo::insert
StoreInsert(tr, info) ==
    [x \in (DOMAIN store) \cup {tr} |-> IF x = tr THEN info ELSE store[x]]

\* ManageKeyInfo::remove
StoreRemove(tr) ==
    [x \in (DOMAIN store) \ {tr} |-> store[x]]

\* The token objects carrying CKA_ID = id
ObjectsOf(id) == {o \in objects : o.id = id}

\* The objects a find_key template matches
Matching(id, key_type) ==
    {o \in ObjectsOf(id) : key_type = "Any" \/ o.class = key_type}

Object(id, class, n, e) == [id |-> id, class |-> class, n |-> n, e |-> e]

\* History of op.data: the key data an import call handed to create_object
\* for the triple, kept until the triple's key info is removed.
Imported(tr, data) ==
    [x \in (DOMAIN imported) \cup {tr} |-> IF x = tr THEN data ELSE imported[x]]

Forgotten(tr) ==
    [x \in (DOMAIN imported) \ {tr} |-> imported[x]]

\* ------------------------------------------------------------- init
Init ==
    /\ store = <<>>
    /\ local_ids = {}
    /\ objects = {}
    /\ store_lock = [w |-> {}, r |-> {}]
    /\ ids_lock = {}
    /\ pc = [t \in Threads |-> "idle"]
    /\ op = [t \in Threads |-> NoOp]
    /\ key_id = [t \in Threads |-> NoId]
    /\ result = [t \in Threads |-> "none"]
    /\ session = [t \in Threads |-> FALSE]
    /\ found = [t \in Threads |-> {}]
    /\ findres = [t \in Threads |-> "none"]
    /\ round = [t \in Threads |-> 0]
    /\ cmds = [t \in Threads |-> {}]
    /\ srch = [t \in Threads |-> FALSE]
    /\ out = [t \in Threads |-> NoOut]
    /\ imported = <<>>

\* ------------------------------------------------------------- calls
\* psa_generate_key_internal is called on a free worker thread: only RSA key
\* pairs are generated
GenerateCall(t) ==
    /\ pc[t] = "idle"
    /\ \E o \in GenerateOps :
        /\ op' = [op EXCEPT ![t] = o]
        /\ IF o.key_type # "RsaKeyPair"
           THEN /\ result' = [result EXCEPT ![t] = "NotSupported"]
                /\ pc' = [pc EXCEPT ![t] = "ret"]
           ELSE /\ pc' = [pc EXCEPT ![t] = "lock_store"]
                /\ UNCHANGED result
    /\ UNCHANGED <<shared, locks, key_id, session, found, findres, round,
                   cmds, srch, out>>

\* psa_import_key_internal is called: only RSA public keys are imported
ImportCall(t, trs, inputs) ==
    /\ pc[t] = "idle"
    /\ \E o \in ImportOps(trs, inputs) :
        /\ op' = [op EXCEPT ![t] = o]
        /\ IF o.key_type # "RsaPublicKey"
           THEN /\ result' = [result EXCEPT ![t] = "NotSupported"]
                /\ pc' = [pc EXCEPT ![t] = "ret"]
           ELSE /\ pc' = [pc EXCEPT ![t] = "lock_store"]
                /\ UNCHANGED result
    /\ UNCHANGED <<shared, locks, key_id, session, found, findres, round,
                   cmds, srch, out>>

\* psa_export_public_key_internal is called
ExportCall(t, trs) ==
    /\ pc[t] = "idle"
    /\ \E o \in ExportOps(trs) : op' = [op EXCEPT ![t] = o]
    /\ pc' = [pc EXCEPT ![t] = "read_store"]
    /\ UNCHANGED <<shared, locks, locals>>

\* psa_destroy_key_internal is called
DestroyCall(t) ==
    /\ pc[t] = "idle"
    /\ \E o \in DestroyOps : op' = [op EXCEPT ![t] = o]
    /\ pc' = [pc EXCEPT ![t] = "lock_store"]
    /\ UNCHANGED <<shared, locks, locals>>

\* LockStoreWrite with a fault: write access is taken without waiting.
LockStoreWriteNoWait(t) ==
    /\ pc[t] = "lock_store"
    /\ store_lock' = [store_lock EXCEPT !.w = @ \cup {t}]
    /\ pc' = [pc EXCEPT ![t] = "lock_ids"]
    /\ UNCHANGED <<shared, ids_lock, op, locals>>

\* LockStoreWrite with a fault: destroy takes the write lock of local_ids
\* first and the write lock of key_info_store second.
LockStoreWriteAfterIds(t) ==
    /\ pc[t] = "lock_store"
    /\ IF op[t].kind = "destroy" /\ t \notin ids_lock
       THEN /\ ids_lock = {}
            /\ ids_lock' = {t}
            /\ UNCHANGED <<store_lock, pc>>
       ELSE /\ store_lock.w = {} /\ store_lock.r = {}
            /\ store_lock' = [store_lock EXCEPT !.w = {t}]
            /\ pc' = [pc EXCEPT ![t] =
                        IF op[t].kind = "destroy" THEN "get_info" ELSE "lock_ids"]
            /\ UNCHANGED ids_lock
    /\ UNCHANGED <<shared, op, locals>>

\* self.key_info_store.write(): waits until no reader and no writer holds it
LockStoreWrite(t) ==
    /\ pc[t] = "lock_store"
    /\ store_lock.w = {} /\ store_lock.r = {}
    /\ store_lock' = [store_lock EXCEPT !.w = {t}]
    /\ pc' = [pc EXCEPT ![t] = "lock_ids"]
    /\ UNCHANGED <<shared, ids_lock, op, locals>>

\* self.local_ids.write()
LockIdsWrite(t) ==
    /\ pc[t] = "lock_ids"
    /\ ids_lock = {}
    /\ ids_lock' = ids_lock \cup {t}
    /\ pc' = [pc EXCEPT ![t] =
                IF op[t].kind = "destroy" THEN "get_info" ELSE "exists"]
    /\ UNCHANGED <<shared, store_lock, op, locals>>

\* LockStoreRead with a fault: read access is granted while a writer holds the lock.
LockStoreReadNoWait(t) ==
    /\ pc[t] = "read_store"
    /\ store_lock' = [store_lock EXCEPT !.r = @ \cup {t}]
    /\ pc' = [pc EXCEPT ![t] = "get_info"]
    /\ UNCHANGED <<shared, ids_lock, op, locals>>

\* self.key_info_store.read(): waits while a writer holds it
LockStoreRead(t) ==
    /\ pc[t] = "read_store"
    /\ store_lock.w = {}
    /\ store_lock' = [store_lock EXCEPT !.r = @ \cup {t}]
    /\ pc' = [pc EXCEPT ![t] = "get_info"]
    /\ UNCHANGED <<shared, ids_lock, op, locals>>

\* KeyInfoExists with a fault: the locks span the existence check only and are
\* released before create_key_id.
KeyInfoExistsThenUnlock(t) ==
    /\ pc[t] = "exists"
    /\ \/ /\ result' = [result EXCEPT ![t] = "KeyInfoManagerError"]
          /\ pc' = [pc EXCEPT ![t] = "ret"]
          /\ UNCHANGED locks
       \/ /\ StoreExists(op[t].triple)
          /\ result' = [result EXCEPT ![t] = "AlreadyExists"]
          /\ pc' = [pc EXCEPT ![t] = "ret"]
          /\ UNCHANGED locks
       \/ /\ ~StoreExists(op[t].triple)
          /\ pc' = [pc EXCEPT ![t] = "create_random"]
          /\ store_lock' = [store_lock EXCEPT !.w = @ \ {t}]
          /\ ids_lock' = ids_lock \ {t}
          /\ UNCHANGED result
    /\ UNCHANGED <<shared, op, key_id, session, found, findres, round,
                   cmds, srch, out>>

\* KeyInfoExists with a fault: the answer of the existence check is ignored.
KeyInfoExistsIgnored(t) ==
    /\ pc[t] = "exists"
    /\ \/ /\ result' = [result EXCEPT ![t] = "KeyInfoManagerError"]
          /\ pc' = [pc EXCEPT ![t] = "ret"]
       \/ /\ pc' = [pc EXCEPT ![t] = "create_random"]
          /\ UNCHANGED result
    /\ UNCHANGED <<shared, locks, op, key_id, session, found, findres, round,
                   cmds, srch, out>>

\* key_info_exists(&key_triple, &*store_handle)? and the AlreadyExists return
KeyInfoExists(t) ==
    /\ pc[t] = "exists"
    /\ \/ /\ result' = [result EXCEPT ![t] = "KeyInfoManagerError"]
          /\ pc' = [pc EXCEPT ![t] = "ret"]
       \/ /\ StoreExists(op[t].triple)
          /\ result' = [result EXCEPT ![t] = "AlreadyExists"]
          /\ pc' = [pc EXCEPT ![t] = "ret"]
       \/ /\ ~StoreExists(op[t].triple)
          /\ pc' = [pc EXCEPT ![t] = "create_random"]
          /\ UNCHANGED result
    /\ UNCHANGED <<shared, locks, op, key_id, session, found, findres, round,
                   cmds, srch, out>>

\* create_key_id: let mut key_id = rand::random::<[u8; 4]>()
CreateKeyIdRandom(t) ==
    /\ pc[t] = "create_random"
    /\ \E id \in Ids : key_id' = [key_id EXCEPT ![t] = id]
    /\ pc' = [pc EXCEPT ![t] = "create_while"]
    /\ UNCHANGED <<shared, locks, op, result, session, found, findres, round,
                   cmds, srch, out>>

\* CreateKeyIdWhile with a fault: the drawn identifier is taken without looking
\* it up in local_ids.
CreateKeyIdWhileUnchecked(t) ==
    /\ pc[t] = "create_while"
    /\ pc' = [pc EXCEPT ![t] = "create_insert"]
    /\ UNCHANGED <<shared, locks, op, locals>>

\* create_key_id: while local_ids_handle.contains(&key_id) { redraw }
CreateKeyIdWhile(t) ==
    /\ pc[t] = "create_while"
    /\ IF key_id[t] \in local_ids
       THEN /\ \E id \in Ids : key_id' = [key_id EXCEPT ![t] = id]
            /\ UNCHANGED pc
       ELSE /\ pc' = [pc EXCEPT ![t] = "create_insert"]
            /\ UNCHANGED key_id
    /\ UNCHANGED <<shared, locks, op, result, session, found, findres, round,
                   cmds, srch, out>>

\* CreateKeyIdInsert with a fault: the identifier is put in local_ids before
\* the store has accepted the key info.
CreateKeyIdInsertEager(t) ==
    /\ pc[t] = "create_insert"
    /\ local_ids' = local_ids \cup {key_id[t]}
    /\ \/ /\ store' = StoreInsert(op[t].triple, KeyInfo(key_id[t], 4, op[t]))
          /\ pc' = [pc EXCEPT ![t] =
                      IF op[t].kind = "generate" THEN "gen_params"
                      ELSE "imp_parse"]
          /\ UNCHANGED result
       \/ /\ result' = [result EXCEPT ![t] = "KeyInfoManagerError"]
          /\ pc' = [pc EXCEPT ![t] = "ret"]
          /\ UNCHANGED store
    /\ UNCHANGED <<objects, imported, locks, op, key_id, session, found,
                   findres, round, cmds, srch, out>>

\* create_key_id: store_handle.insert, then local_ids_handle.insert
CreateKeyIdInsert(t) ==
    /\ pc[t] = "create_insert"
    /\ \/ /\ store' = StoreInsert(op[t].triple, KeyInfo(key_id[t], 4, op[t]))
          /\ local_ids' = local_ids \cup {key_id[t]}
          /\ pc' = [pc EXCEPT ![t] =
                      IF op[t].kind = "generate" THEN "gen_params"
                      ELSE "imp_parse"]
          /\ UNCHANGED result
       \/ /\ result' = [result EXCEPT ![t] = "KeyInfoManagerError"]
          /\ pc' = [pc EXCEPT ![t] = "ret"]
          /\ UNCHANGED <<store, local_ids>>
    /\ UNCHANGED <<objects, imported, locks, op, key_id, session, found,
                   findres, round, cmds, srch, out>>

\* RemoveKeyIdCompensate with a fault: the error of the removal is dropped and
\* the pending error returned.
RemoveKeyIdCompensateSwallowed(t) ==
    /\ pc[t] = "compensate"
    /\ \/ /\ store' = StoreRemove(op[t].triple)
          /\ local_ids' = local_ids \ {key_id[t]}
       \/ UNCHANGED <<store, local_ids>>
    /\ pc' = [pc EXCEPT ![t] = "ret"]
    /\ UNCHANGED <<objects, imported, locks, op, key_id, result, session,
                   found, findres, round, cmds, srch, out>>

\* remove_key_id, called to compensate a failed step: the pending error is
\* returned when the removal succeeds, the store's error otherwise
RemoveKeyIdCompensate(t) ==
    /\ pc[t] = "compensate"
    /\ \/ /\ store' = StoreRemove(op[t].triple)
          /\ local_ids' = local_ids \ {key_id[t]}
          /\ UNCHANGED result
       \/ /\ result' = [result EXCEPT ![t] = "KeyInfoManagerError"]
          /\ UNCHANGED <<store, local_ids>>
    /\ pc' = [pc EXCEPT ![t] = "ret"]
    /\ UNCHANGED <<objects, imported, locks, op, key_id, session, found,
                   findres, round, cmds, srch, out>>

\* psa_generate_key_internal: utils::parsec_to_pkcs11_params(..)?
GenerateParams(t) ==
    /\ pc[t] = "gen_params"
    /\ \/ /\ pc' = [pc EXCEPT ![t] = "session_rw"]
          /\ UNCHANGED result
       \/ /\ result' = [result EXCEPT ![t] = "NotSupported"]
          /\ pc' = [pc EXCEPT ![t] = "ret"]
    /\ UNCHANGED <<shared, locks, op, key_id, session, found, findres, round,
                   cmds, srch, out>>

\* generate / import: Session::new(self, ReadWrite).or_else(compensate)?
SessionNewCompensated(t) ==
    /\ pc[t] = "session_rw"
    /\ \/ /\ session' = [session EXCEPT ![t] = TRUE]
          /\ pc' = [pc EXCEPT ![t] =
                      IF op[t].kind = "generate" THEN "gen_keypair"
                      ELSE "imp_create"]
          /\ UNCHANGED result
       \/ /\ result' = [result EXCEPT ![t] = "SessionError"]
          /\ pc' = [pc EXCEPT ![t] = "compensate"]
          /\ UNCHANGED session
    /\ UNCHANGED <<shared, locks, op, key_id, found, findres, round,
                   cmds, srch, out>>

\* psa_generate_key_internal: self.backend.generate_key_pair(..)
GenerateKeyPair(t) ==
    /\ pc[t] = "gen_keypair"
    /\ cmds' = [cmds EXCEPT ![t] = @ \cup {"GenerateKeyPair"}]
    /\ \/ /\ objects' = objects \cup
                {Object(key_id[t], "PublicKey", TokenModulus, TokenExponent),
                 Object(key_id[t], "PrivateKey", TokenModulus, TokenExponent)}
          /\ result' = [result EXCEPT ![t] = "Ok"]
          /\ pc' = [pc EXCEPT ![t] = "ret"]
       \/ /\ result' = [result EXCEPT ![t] = "TokenError"]
          /\ pc' = [pc EXCEPT ![t] = "compensate"]
          /\ UNCHANGED objects
    /\ UNCHANGED <<store, local_ids, imported, locks, op, key_id, session,
                   found, findres, round, srch, out>>

\* ------------------------------------------------------------- import
\* psa_import_key_internal: picky_asn1_der::from_bytes(..).or_else(compensate)?
ImportParse(t) ==
    /\ pc[t] = "imp_parse"
    /\ IF op[t].data.wf
       THEN /\ pc' = [pc EXCEPT ![t] = "imp_sign"]
            /\ UNCHANGED result
       ELSE /\ result' = [result EXCEPT ![t] = "InvalidArgument"]
            /\ pc' = [pc EXCEPT ![t] = "compensate"]
    /\ UNCHANGED <<shared, locks, op, key_id, session, found, findres, round,
                   cmds, srch, out>>

\* ImportCheckSign with a fault: a negative value is rejected without removing
\* the reserved key info.
ImportCheckSignNoRemove(t) ==
    /\ pc[t] = "imp_sign"
    /\ IF IsNegative(op[t].data.n) \/ IsNegative(op[t].data.e)
       THEN /\ result' = [result EXCEPT ![t] = "InvalidArgument"]
            /\ pc' = [pc EXCEPT ![t] = "ret"]
       ELSE /\ pc' = [pc EXCEPT ![t] = "imp_bits"]
            /\ UNCHANGED result
    /\ UNCHANGED <<shared, locks, op, key_id, session, found, findres, round,
                   cmds, srch, out>>

\* psa_import_key_internal: modulus.is_negative() || public_exponent.is_negative()
ImportCheckSign(t) ==
    /\ pc[t] = "imp_sign"
    /\ IF IsNegative(op[t].data.n) \/ IsNegative(op[t].data.e)
       THEN /\ result' = [result EXCEPT ![t] = "InvalidArgument"]
            /\ pc' = [pc EXCEPT ![t] = "compensate"]
       ELSE /\ pc' = [pc EXCEPT ![t] = "imp_bits"]
            /\ UNCHANGED result
    /\ UNCHANGED <<shared, locks, op, key_id, session, found, findres, round,
                   cmds, srch, out>>

\* BitsMismatch with a fault: the sign byte is counted in the size of the key.
BitsMismatchSigned(bits, modulus) ==
    bits # 0 /\ Len(modulus) * 8 # bits

\* bits != 0 && modulus_object.len() * 8 != bits
BitsMismatch(bits, modulus) ==
    bits # 0 /\ Len(AsUnsignedBytesBe(modulus)) * 8 # bits

\* psa_import_key_internal: the cross-check of attributes.bits, which returns
\* without removing the reserved key info
ImportCheckBits(t) ==
    /\ pc[t] = "imp_bits"
    /\ IF BitsMismatch(op[t].bits, op[t].data.n)
       THEN /\ result' = [result EXCEPT ![t] = "InvalidArgument"]
            /\ pc' = [pc EXCEPT ![t] = "ret"]
       ELSE /\ pc' = [pc EXCEPT ![t] = "session_rw"]
            /\ UNCHANGED result
    /\ UNCHANGED <<shared, locks, op, key_id, session, found, findres, round,
                   cmds, srch, out>>

\* psa_import_key_internal: self.backend.create_object(..)
ImportCreateObject(t) ==
    /\ pc[t] = "imp_create"
    /\ cmds' = [cmds EXCEPT ![t] = @ \cup {"CreateObject"}]
    /\ \/ /\ objects' = objects \cup
                {Object(key_id[t], "PublicKey",
                        AsUnsignedBytesBe(op[t].data.n),
                        AsUnsignedBytesBe(op[t].data.e))}
          /\ imported' = Imported(op[t].triple, op[t].data)
          /\ result' = [result EXCEPT ![t] = "Ok"]
          /\ pc' = [pc EXCEPT ![t] = "ret"]
       \/ /\ result' = [result EXCEPT ![t] = "TokenError"]
          /\ pc' = [pc EXCEPT ![t] = "compensate"]
          /\ UNCHANGED <<objects, imported>>
    /\ UNCHANGED <<store, local_ids, locks, op, key_id, session, found,
                   findres, round, srch, out>>

\* ------------------------------------------------------------- lookup
\* get_key_info(&key_triple, &*store_handle)? in export and destroy
GetKeyInfo(t) ==
    /\ pc[t] = "get_info"
    /\ \/ /\ result' = [result EXCEPT ![t] = "KeyInfoManagerError"]
          /\ pc' = [pc EXCEPT ![t] = "ret"]
          /\ UNCHANGED key_id
       \/ /\ ~StoreExists(op[t].triple)
          /\ result' = [result EXCEPT ![t] = "DoesNotExist"]
          /\ pc' = [pc EXCEPT ![t] = "ret"]
          /\ UNCHANGED key_id
       \/ /\ StoreExists(op[t].triple)
          /\ IF store[op[t].triple].idlen = 4
             THEN /\ key_id' = [key_id EXCEPT ![t] = store[op[t].triple].id]
                  /\ pc' = [pc EXCEPT ![t] = "session"]
                  /\ UNCHANGED result
             ELSE /\ result' = [result EXCEPT ![t] = "KeyInfoManagerError"]
                  /\ pc' = [pc EXCEPT ![t] = "ret"]
                  /\ UNCHANGED key_id
    /\ UNCHANGED <<shared, locks, op, session, found, findres, round,
                   cmds, srch, out>>

\* export / destroy: Session::new(self, ..)?
SessionNew(t) ==
    /\ pc[t] = "session"
    /\ \/ /\ session' = [session EXCEPT ![t] = TRUE]
          /\ round' = [round EXCEPT ![t] = 1]
          /\ pc' = [pc EXCEPT ![t] = "find_init"]
          /\ UNCHANGED result
       \/ /\ result' = [result EXCEPT ![t] = "SessionError"]
          /\ pc' = [pc EXCEPT ![t] = "ret"]
          /\ UNCHANGED <<session, round>>
    /\ UNCHANGED <<shared, locks, op, key_id, found, findres, cmds, srch, out>>

\* The KeyPairType the caller passes to find_key
FindType(t) == IF op[t].kind = "export" THEN "PublicKey" ELSE "Any"

\* find_key: self.backend.find_objects_init(session, &template)
FindObjectsInit(t) ==
    /\ pc[t] = "find_init"
    /\ cmds' = [cmds EXCEPT ![t] = @ \cup {"FindObjectsInit"}]
    /\ \/ /\ srch' = [srch EXCEPT ![t] = TRUE]
          /\ pc' = [pc EXCEPT ![t] = "find_objects"]
          /\ UNCHANGED findres
       \/ /\ findres' = [findres EXCEPT ![t] = "TokenError"]
          /\ pc' = [pc EXCEPT ![t] = "found"]
          /\ UNCHANGED srch
    /\ UNCHANGED <<shared, locks, op, key_id, result, session, found, round,
                   out>>

\* find_key: self.backend.find_objects(session, 1); an error returns without
\* find_objects_final
FindObjects(t) ==
    /\ pc[t] = "find_objects"
    /\ cmds' = [cmds EXCEPT ![t] = @ \cup {"FindObjects"}]
    /\ \/ /\ IF Matching(key_id[t], FindType(t)) = {}
             THEN found' = [found EXCEPT ![t] = {}]
             ELSE \E o \in Matching(key_id[t], FindType(t)) :
                      found' = [found EXCEPT ![t] = {o}]
          /\ pc' = [pc EXCEPT ![t] = "find_final"]
          /\ UNCHANGED findres
       \/ /\ findres' = [findres EXCEPT ![t] = "TokenError"]
          /\ pc' = [pc EXCEPT ![t] = "found"]
          /\ UNCHANGED found
    /\ UNCHANGED <<shared, locks, op, key_id, result, session, round, srch,
                   out>>

\* find_key: self.backend.find_objects_final(session), then the first object
FindObjectsFinal(t) ==
    /\ pc[t] = "find_final"
    /\ cmds' = [cmds EXCEPT ![t] = @ \cup {"FindObjectsFinal"}]
    /\ srch' = [srch EXCEPT ![t] = FALSE]
    /\ \/ findres' = [findres EXCEPT ![t] = "TokenError"]
       \/ findres' = [findres EXCEPT ![t] =
                        IF found[t] = {} THEN "DoesNotExist" ELSE "Ok"]
    /\ pc' = [pc EXCEPT ![t] = "found"]
    /\ UNCHANGED <<shared, locks, op, key_id, result, session, found, round,
                   out>>

\* ------------------------------------------------------------- export
\* ExportFound with a fault: a key info whose public key object is missing is
\* removed, as the failure paths of generate and import remove theirs.
ExportFoundCleanup(t) ==
    /\ pc[t] = "found"
    /\ op[t].kind = "export"
    /\ IF findres[t] = "Ok"
       THEN /\ pc' = [pc EXCEPT ![t] = "exp_len"]
            /\ UNCHANGED <<result, store, local_ids, imported>>
       ELSE /\ result' = [result EXCEPT ![t] = findres[t]]
            /\ pc' = [pc EXCEPT ![t] = "ret"]
            /\ IF findres[t] = "DoesNotExist"
               THEN /\ store' = StoreRemove(op[t].triple)
                    /\ local_ids' = local_ids \ {key_id[t]}
                    /\ imported' = Forgotten(op[t].triple)
               ELSE UNCHANGED <<store, local_ids, imported>>
    /\ UNCHANGED <<objects, locks, op, key_id, session, found, findres, round,
                   cmds, srch, out>>

\* psa_export_public_key_internal: let key = self.find_key(..)?
ExportFound(t) ==
    /\ pc[t] = "found"
    /\ op[t].kind = "export"
    /\ IF findres[t] = "Ok"
       THEN /\ pc' = [pc EXCEPT ![t] = "exp_len"]
            /\ UNCHANGED result
       ELSE /\ result' = [result EXCEPT ![t] = findres[t]]
            /\ pc' = [pc EXCEPT ![t] = "ret"]
    /\ UNCHANGED <<shared, locks, op, key_id, session, found, findres, round,
                   cmds, srch, out>>

\* psa_export_public_key_internal: get_attribute_value for the lengths
ExportAttributeLengths(t) ==
    /\ pc[t] = "exp_len"
    /\ cmds' = [cmds EXCEPT ![t] = @ \cup {"GetAttributeValue"}]
    /\ \/ /\ pc' = [pc EXCEPT ![t] = "exp_val"]
          /\ UNCHANGED result
       \/ /\ result' = [result EXCEPT ![t] = "TokenError"]
          /\ pc' = [pc EXCEPT ![t] = "ret"]
    /\ UNCHANGED <<shared, locks, op, key_id, session, found, findres, round,
                   srch, out>>

\* ExportedKey with a fault: the attribute bytes are taken as the INTEGER's
\* content bytes, without the 0x00 in front of a set most significant bit.
ExportedKeyRaw(o) ==
    [n |-> o.n, e |-> o.e]

\* RSAPublicKey { modulus: from_unsigned_bytes_be(..), public_exponent: .. }
ExportedKey(o) ==
    [n |-> FromUnsignedBytesBe(o.n), e |-> FromUnsignedBytesBe(o.e)]

\* psa_export_public_key_internal: get_attribute_value for the values, then
\* the RSAPublicKey is built and serialised
ExportAttributeValues(t) ==
    /\ pc[t] = "exp_val"
    /\ cmds' = [cmds EXCEPT ![t] = @ \cup {"GetAttributeValue"}]
    /\ \/ /\ \E o \in found[t] : out' = [out EXCEPT ![t] = ExportedKey(o)]
          /\ result' = [result EXCEPT ![t] = "Ok"]
       \/ /\ result' = [result EXCEPT ![t] = "CommunicationFailure"]
          /\ UNCHANGED out
       \/ /\ result' = [result EXCEPT ![t] = "TokenError"]
          /\ UNCHANGED out
    /\ pc' = [pc EXCEPT ![t] = "ret"]
    /\ UNCHANGED <<shared, locks, op, key_id, session, found, findres, round,
                   srch>>

\* ------------------------------------------------------------- destroy
\* DestroyFound with a fault: a missing second object is an error like any other.
DestroyFoundStrict(t) ==
    /\ pc[t] = "found"
    /\ op[t].kind = "destroy"
    /\ IF findres[t] = "Ok"
       THEN /\ pc' = [pc EXCEPT ![t] = "des_object"]
            /\ UNCHANGED result
       ELSE /\ result' = [result EXCEPT ![t] = findres[t]]
            /\ pc' = [pc EXCEPT ![t] = "ret"]
    /\ UNCHANGED <<shared, locks, op, key_id, session, found, findres, round,
                   cmds, srch, out>>

\* DestroyFound with a fault: a missing object is tolerated at the first
\* locate as it is at the second.
DestroyFoundLenient(t) ==
    /\ pc[t] = "found"
    /\ op[t].kind = "destroy"
    /\ IF findres[t] = "Ok"
       THEN /\ pc' = [pc EXCEPT ![t] = "des_object"]
            /\ UNCHANGED result
       ELSE IF findres[t] = "DoesNotExist"
       THEN /\ pc' = [pc EXCEPT ![t] = "des_remove"]
            /\ UNCHANGED result
       ELSE /\ result' = [result EXCEPT ![t] = findres[t]]
            /\ pc' = [pc EXCEPT ![t] = "ret"]
    /\ UNCHANGED <<shared, locks, op, key_id, session, found, findres, round,
                   cmds, srch, out>>

\* psa_destroy_key_internal: match self.find_key(.., KeyPairType::Any); the
\* first object is required, the second is optional
DestroyFound(t) ==
    /\ pc[t] = "found"
    /\ op[t].kind = "destroy"
    /\ IF findres[t] = "Ok"
       THEN /\ pc' = [pc EXCEPT ![t] = "des_object"]
            /\ UNCHANGED result
       ELSE IF round[t] = 2 /\ findres[t] = "DoesNotExist"
       THEN /\ pc' = [pc EXCEPT ![t] = "des_remove"]
            /\ UNCHANGED result
       ELSE /\ result' = [result EXCEPT ![t] = findres[t]]
            /\ pc' = [pc EXCEPT ![t] = "ret"]
    /\ UNCHANGED <<shared, locks, op, key_id, session, found, findres, round,
                   cmds, srch, out>>

\* psa_destroy_key_internal: self.backend.destroy_object(session, key)
DestroyObject(t) ==
    /\ pc[t] = "des_object"
    /\ cmds' = [cmds EXCEPT ![t] = @ \cup {"DestroyObject"}]
    /\ \/ /\ objects' = objects \ found[t]
          /\ IF round[t] = 1
             THEN /\ round' = [round EXCEPT ![t] = 2]
                  /\ found' = [found EXCEPT ![t] = {}]
                  /\ findres' = [findres EXCEPT ![t] = "none"]
                  /\ pc' = [pc EXCEPT ![t] = "find_init"]
             ELSE /\ pc' = [pc EXCEPT ![t] = "des_remove"]
                  /\ UNCHANGED <<round, found, findres>>
          /\ UNCHANGED result
       \/ /\ result' = [result EXCEPT ![t] = "TokenError"]
          /\ pc' = [pc EXCEPT ![t] = "ret"]
          /\ UNCHANGED <<objects, round, found, findres>>
    /\ UNCHANGED <<store, local_ids, imported, locks, op, key_id, session,
                   srch, out>>

\* psa_destroy_key_internal: remove_key_id(..)?; Ok(psa_destroy_key::Result {})
DestroyRemoveKeyId(t) ==
    /\ pc[t] = "des_remove"
    /\ \/ /\ store' = StoreRemove(op[t].triple)
          /\ local_ids' = local_ids \ {key_id[t]}
          /\ imported' = Forgotten(op[t].triple)
          /\ result' = [result EXCEPT ![t] = "Ok"]
       \/ /\ result' = [result EXCEPT ![t] = "KeyInfoManagerError"]
          /\ UNCHANGED <<store, local_ids, imported>>
    /\ pc' = [pc EXCEPT ![t] = "ret"]
    /\ UNCHANGED <<objects, locks, op, key_id, session, found, findres, round,
                   cmds, srch, out>>

\* ------------------------------------------------------------- return
\* The function returns: its locals are dropped in reverse order of
\* declaration, the Session first.
DropSession(t) ==
    /\ pc[t] = "ret"
    /\ session' = [session EXCEPT ![t] = FALSE]
    /\ srch' = [srch EXCEPT ![t] = FALSE]
    /\ pc' = [pc EXCEPT ![t] = "unlock"]
    /\ UNCHANGED <<shared, locks, op, key_id, result, found, findres, round,
                   cmds, out>>

\* local_ids_handle is dropped
DropIdsLock(t) ==
    /\ pc[t] = "unlock"
    /\ t \in ids_lock
    /\ ids_lock' = ids_lock \ {t}
    /\ UNCHANGED <<shared, store_lock, pc, op, locals>>

\* store_handle is dropped and the call has returned: the worker thread is
\* free for the next request
DropStoreLock(t) ==
    /\ pc[t] = "unlock"
    /\ t \notin ids_lock
    /\ store_lock' = [w |-> store_lock.w \ {t}, r |-> store_lock.r \ {t}]
    /\ pc' = [pc EXCEPT ![t] = "idle"]
    /\ op' = [op EXCEPT ![t] = NoOp]
    /\ key_id' = [key_id EXCEPT ![t] = NoId]
    /\ result' = [result EXCEPT ![t] = "none"]
    /\ found' = [found EXCEPT ![t] = {}]
    /\ findres' = [findres EXCEPT ![t] = "none"]
    /\ round' = [round EXCEPT ![t] = 0]
    /\ cmds' = [cmds EXCEPT ![t] = {}]
    /\ out' = [out EXCEPT ![t] = NoOut]
    /\ UNCHANGED <<shared, ids_lock, session, srch>>

\* ------------------------------------------------------------- specification
Step(t) ==
    \/ GenerateCall(t)
    \/ ImportCall(t, Triples, LifecycleImports)
    \/ ExportCall(t, Triples)
    \/ DestroyCall(t)
    \/ LockStoreWrite(t)
    \/ LockIdsWrite(t)
    \/ LockStoreRead(t)
    \/ KeyInfoExists(t)
    \/ CreateKeyIdRandom(t)
    \/ CreateKeyIdWhile(t)
    \/ CreateKeyIdInsert(t)
    \/ RemoveKeyIdCompensate(t)
    \/ GenerateParams(t)
    \/ SessionNewCompensated(t)
    \/ GenerateKeyPair(t)
    \/ ImportParse(t)
    \/ ImportCheckSign(t)
    \/ ImportCheckBits(t)
    \/ ImportCreateObject(t)
    \/ GetKeyInfo(t)
    \/ SessionNew(t)
    \/ FindObjectsInit(t)
    \/ FindObjects(t)
    \/ FindObjectsFinal(t)
    \/ ExportFound(t)
    \/ ExportAttributeLengths(t)
    \/ ExportAttributeValues(t)
    \/ DestroyFound(t)
    \/ DestroyObject(t)
    \/ DestroyRemoveKeyId(t)
    \/ DropSession(t)
    \/ DropIdsLock(t)
    \/ DropStoreLock(t)

Next == \E t \in Threads : Step(t)

Spec == Init /\ [][Next]_vars

\* The import specification: one worker thread imports keys under one triple
\* and exports them.
ImportStep(t) ==
    \/ ImportCall(t, {1}, ImportInputs)
    \/ ExportCall(t, {1})
    \/ LockStoreWrite(t)
    \/ LockIdsWrite(t)
    \/ LockStoreRead(t)
    \/ KeyInfoExists(t)
    \/ CreateKeyIdRandom(t)
    \/ CreateKeyIdWhile(t)
    \/ CreateKeyIdInsert(t)
    \/ RemoveKeyIdCompensate(t)
    \/ SessionNewCompensated(t)
    \/ ImportParse(t)
    \/ ImportCheckSign(t)
    \/ ImportCheckBits(t)
    \/ ImportCreateObject(t)
    \/ GetKeyInfo(t)
    \/ SessionNew(t)
    \/ FindObjectsInit(t)
    \/ FindObjects(t)
    \/ FindObjectsFinal(t)
    \/ ExportFound(t)
    \/ ExportAttributeLengths(t)
    \/ ExportAttributeValues(t)
    \/ DropSession(t)
    \/ DropIdsLock(t)
    \/ DropStoreLock(t)

NextImport == ImportStep(1)

SpecImport == Init /\ [][NextImport]_vars

\* The termination specification: one worker thread runs the four operations
\* one call after the other, under fair scheduling.  Key names are not
\* bounded by the identifier space, so imports may name one more triple than
\* there are identifiers.
LiveTriples == 1..(NumIds + 1)

LiveStep(t) ==
    \/ GenerateCall(t)
    \/ ImportCall(t, LiveTriples, LifecycleImports)
    \/ ExportCall(t, LiveTriples)
    \/ DestroyCall(t)
    \/ LockStoreWrite(t)
    \/ LockIdsWrite(t)
    \/ LockStoreRead(t)
    \/ KeyInfoExists(t)
    \/ CreateKeyIdRandom(t)
    \/ CreateKeyIdWhile(t)
    \/ CreateKeyIdInsert(t)
    \/ RemoveKeyIdCompensate(t)
    \/ GenerateParams(t)
    \/ SessionNewCompensated(t)
    \/ GenerateKeyPair(t)
    \/ ImportParse(t)
    \/ ImportCheckSign(t)
    \/ ImportCheckBits(t)
    \/ ImportCreateObject(t)
    \/ GetKeyInfo(t)
    \/ SessionNew(t)
    \/ FindObjectsInit(t)
    \/ FindObjects(t)
    \/ FindObjectsFinal(t)
    \/ ExportFound(t)
    \/ ExportAttributeLengths(t)
    \/ ExportAttributeValues(t)
    \/ DestroyFound(t)
    \/ DestroyObject(t)
    \/ DestroyRemoveKeyId(t)
    \/ DropSession(t)
    \/ DropIdsLock(t)
    \/ DropStoreLock(t)

NextLive == LiveStep(1)

\* A running call is scheduled again and again, and rand::random does not
\* avoid a free identifier for ever.
FairLive ==
    /\ WF_vars(NextLive)
    /\ SF_vars(CreateKeyIdWhile(1) /\ key_id'[1] \notin local_ids)

SpecLive == Init /\ [][NextLive]_vars /\ FairLive

\* ------------------------------------------------------------- remove_key_id
\* The removal specification: remove_key_id is called twice in a row with the
\* same key triple and identifier, on every store of generated key pairs.
RemoveOps ==
    [kind : {"remove"}, triple : Triples, key_type : {"none"},
     bits : {0}, data : {NoData}]

\* The stores the lifecycle operations build: every triple's key info holds
\* an identifier of its own.
RemoveStores ==
    {f \in UNION {[D -> Ids] : D \in SUBSET Triples} :
        \A x, y \in DOMAIN f : x # y => f[x] # f[y]}

\* The key infos and the token objects of key pairs generated under the
\* triples of f, with the identifiers f gives them
KeyPairStore(f) ==
    [tr \in DOMAIN f |->
        KeyInfo(f[tr], 4, [key_type |-> "RsaKeyPair", bits |-> 0])]

KeyPairObjects(f) ==
    UNION {{Object(f[tr], "PublicKey", TokenModulus, TokenExponent),
            Object(f[tr], "PrivateKey", TokenModulus, TokenExponent)} :
           tr \in DOMAIN f}

InitRemove ==
    /\ \E f \in RemoveStores :
        /\ store = KeyPairStore(f)
        /\ local_ids = {f[tr] : tr \in DOMAIN f}
        /\ objects = KeyPairObjects(f)
    /\ store_lock = [w |-> {}, r |-> {}]
    /\ ids_lock = {}
    /\ pc = [t \in Threads |-> "idle"]
    /\ op = [t \in Threads |-> NoOp]
    /\ key_id = [t \in Threads |-> NoId]
    /\ result = [t \in Threads |-> "none"]
    /\ session = [t \in Threads |-> FALSE]
    /\ found = [t \in Threads |-> {}]
    /\ findres = [t \in Threads |-> "none"]
    /\ round = [t \in Threads |-> 0]
    /\ cmds = [t \in Threads |-> {}]
    /\ srch = [t \in Threads |-> FALSE]
    /\ out = [t \in Threads |-> NoOut]
    /\ imported = <<>>

\* A caller holding both write guards (store_handle, local_ids_handle) is
\* about to call remove_key_id(key_triple, key_id, ..); round counts its calls
RemoveCall(t) ==
    /\ pc[t] = "idle"
    /\ store_lock.w = {} /\ store_lock.r = {} /\ ids_lock = {}
    /\ \E o \in RemoveOps : op' = [op EXCEPT ![t] = o]
    /\ \E id \in Ids : key_id' = [key_id EXCEPT ![t] = id]
    /\ store_lock' = [store_lock EXCEPT !.w = {t}]
    /\ ids_lock' = {t}
    /\ pc' = [pc EXCEPT ![t] = "remove"]
    /\ UNCHANGED <<shared, result, session, found, findres, round, cmds,
                   srch, out>>

\* RemoveKeyId with a fault: a key triple the store does not hold is an error.
RemoveKeyIdStrict(t) ==
    /\ pc[t] = "remove"
    /\ \/ /\ StoreExists(op[t].triple)
          /\ store' = StoreRemove(op[t].triple)
          /\ local_ids' = local_ids \ {key_id[t]}
          /\ imported' = Forgotten(op[t].triple)
          /\ result' = [result EXCEPT ![t] = "Ok"]
       \/ /\ ~StoreExists(op[t].triple)
          /\ result' = [result EXCEPT ![t] = "DoesNotExist"]
          /\ UNCHANGED <<store, local_ids, imported>>
       \/ /\ result' = [result EXCEPT ![t] = "KeyInfoManagerError"]
          /\ UNCHANGED <<store, local_ids, imported>>
    /\ round' = [round EXCEPT ![t] = @ + 1]
    /\ pc' = [pc EXCEPT ![t] = IF round[t] = 0 THEN "remove" ELSE "removed"]
    /\ UNCHANGED <<objects, locks, op, key_id, session, found, findres, cmds,
                   srch, out>>

\* remove_key_id: store_handle.remove(key_triple), then on Ok(_), whatever
\* was removed, local_ids_handle.remove(&key_id) and Ok(())
RemoveKeyId(t) ==
    /\ pc[t] = "remove"
    /\ \/ /\ store' = StoreRemove(op[t].triple)
          /\ local_ids' = local_ids \ {key_id[t]}
          /\ imported' = Forgotten(op[t].triple)
          /\ result' = [result EXCEPT ![t] = "Ok"]
       \/ /\ result' = [result EXCEPT ![t] = "KeyInfoManagerError"]
          /\ UNCHANGED <<store, local_ids, imported>>
    /\ round' = [round EXCEPT ![t] = @ + 1]
    /\ pc' = [pc EXCEPT ![t] = IF round[t] = 0 THEN "remove" ELSE "removed"]
    /\ UNCHANGED <<objects, locks, op, key_id, session, found, findres, cmds,
                   srch, out>>

\* The caller drops its guards
RemoveReturn(t) ==
    /\ pc[t] = "removed"
    /\ store_lock' = [store_lock EXCEPT !.w = {}]
    /\ ids_lock' = {}
    /\ pc' = [pc EXCEPT ![t] = "idle"]
    /\ op' = [op EXCEPT ![t] = NoOp]
    /\ key_id' = [key_id EXCEPT ![t] = NoId]
    /\ result' = [result EXCEPT ![t] = "none"]
    /\ round' = [round EXCEPT ![t] = 0]
    /\ UNCHANGED <<shared, session, found, findres, cmds, srch, out>>

RemoveStep(t) ==
    \/ RemoveCall(t)
    \/ RemoveKeyId(t)
    \/ RemoveReturn(t)

NextRemove == \E t \in Threads : RemoveStep(t)

SpecRemove == InitRemove /\ [][NextRemove]_vars

\* ------------------------------------------------------------- cold start
\* The cold-start specification: the provider instance starts on a durable
\* store that already holds the key infos of generated key pairs, with
\* local_ids empty; one worker thread then runs the four operations.
InitCold ==
    /\ \E f \in RemoveStores \ {<<>>} :
        /\ store = KeyPairStore(f)
        /\ objects = KeyPairObjects(f)
    /\ local_ids = {}
    /\ store_lock = [w |-> {}, r |-> {}]
    /\ ids_lock = {}
    /\ pc = [t \in Threads |-> "idle"]
    /\ op = [t \in Threads |-> NoOp]
    /\ key_id = [t \in Threads |-> NoId]
    /\ result = [t \in Threads |-> "none"]
    /\ session = [t \in Threads |-> FALSE]
    /\ found = [t \in Threads |-> {}]
    /\ findres = [t \in Threads |-> "none"]
    /\ round = [t \in Threads |-> 0]
    /\ cmds = [t \in Threads |-> {}]
    /\ srch = [t \in Threads |-> FALSE]
    /\ out = [t \in Threads |-> NoOut]
    /\ imported = <<>>

NextCold == Step(1)

SpecCold == InitCold /\ [][NextCold]_vars

\* ------------------------------------------------------------- properties
\* The call of t was turned away by the key type check, before any lock.
TypeRejected(t) ==
    \/ op[t].kind = "generate" /\ op[t].key_type # "RsaKeyPair"
    \/ op[t].kind = "import" /\ op[t].key_type # "RsaPublicKey"

Mutating(t) == op[t].kind \in {"generate", "import", "destroy"}

\* t is about to return: its result is set, nothing is dropped yet.
Returning(t) == pc[t] = "ret"

\* t is between its first store access and its return.
InMutation(t) ==
    /\ Mutating(t)
    /\ ~TypeRejected(t)
    /\ pc[t] \notin {"idle", "lock_store", "lock_ids", "unlock"}

\* t has reserved a key info and neither committed nor compensated yet.
InFlight(t) ==
    /\ op[t].kind \in {"generate", "import"}
    /\ pc[t] \in {"gen_params", "session_rw", "gen_keypair", "imp_parse",
                  "imp_sign", "imp_bits", "imp_create", "compensate"}

\* No call is in progress.
Quiescent == \A t \in Threads : pc[t] = "idle"

\* C1: when generate returns a failure of attribute translation, of session
\* acquisition or of the key pair generation command, each of which comes
\* after the reservation, no key info is stored for the triple and the token
\* holds no object under the reserved identifier.
C1_GenerateFailureLeavesNothing ==
    \A t \in Threads :
        (/\ Returning(t)
         /\ op[t].kind = "generate"
         /\ key_id[t] # NoId
         /\ result[t] \in {"NotSupported", "SessionError", "TokenError"})
        => (~StoreExists(op[t].triple) /\ ObjectsOf(key_id[t]) = {})

\* C2: when import returns a failure of parsing, of the sign check, of the
\* bits cross-check, of session acquisition or of the object creation command,
\* each of which comes after the reservation, no key info is stored for the
\* triple and the token holds no object under the reserved identifier.
C2_ImportFailureLeavesNothing ==
    \A t \in Threads :
        (/\ Returning(t)
         /\ op[t].kind = "import"
         /\ key_id[t] # NoId
         /\ result[t] \in {"InvalidArgument", "SessionError", "TokenError"})
        => (~StoreExists(op[t].triple) /\ ObjectsOf(key_id[t]) = {})

\* C3: whenever every call has returned, a key info is stored for a triple
\* exactly when the token holds at least one object under its identifier.
C3_RecordIffObject ==
    Quiescent =>
        /\ \A tr \in DOMAIN store : ObjectsOf(store[tr].id) # {}
        /\ \A o \in objects : \E tr \in DOMAIN store : store[tr].id = o.id

\* C4: no two key infos in the store hold the same identifier.
C4_UniqueIdentifiers ==
    \A tr1, tr2 \in DOMAIN store :
        tr1 # tr2 => store[tr1].id # store[tr2].id

\* Two key infos are stored, the second reserved while the first identifier
\* was in local_ids.
C4_Witness ==
    /\ Cardinality(DOMAIN store) = 2
    /\ Cardinality(local_ids) = 2

\* C5: a generate, import or destroy call holds write access to both locks
\* from its first store access until it returns, and no two such calls are
\* between their first store access and their return at the same time.
C5_MutationsSerialized ==
    /\ \A t \in Threads :
           InMutation(t) => (store_lock.w = {t} /\ ids_lock = {t})
    /\ \A t, u \in Threads :
           (InMutation(t) /\ InMutation(u)) => t = u

\* One mutating call is past its reservation while another waits for the
\* store lock.
C5_Witness ==
    \E t, u \in Threads :
        /\ InFlight(t)
        /\ Mutating(u) /\ pc[u] = "lock_store"

\* C6: while a generate or import call is between its reservation and its
\* commit or compensating removal, no other thread holds access to the store
\* or is about to read a key info.
C6_NoReadOfReserved ==
    \A t, u \in Threads :
        (InFlight(t) /\ u # t) =>
            /\ u \notin store_lock.r
            /\ u \notin store_lock.w
            /\ pc[u] # "get_info"

\* An export of the triple being reserved waits for read access.
C6_Witness ==
    \E t, u \in Threads :
        /\ InFlight(t)
        /\ op[u].kind = "export" /\ pc[u] = "read_store"
        /\ op[u].triple = op[t].triple

\* The call of t found (or is about to find) the triple's key info in place:
\* it holds the store lock, the triple has a key info, nothing is reserved.
OnExistingTriple(t) ==
    /\ op[t].kind \in {"generate", "import"}
    /\ ~TypeRejected(t)
    /\ t \in store_lock.w
    /\ key_id[t] = NoId
    /\ StoreExists(op[t].triple)

\* C7: a generate or import call on a triple that has a key info returns
\* AlreadyExists once the existence check has answered (the store's own
\* error if the check could not be made); while it holds the locks it opens
\* no session, issues no token command and the store, local_ids and the
\* token objects stay as they were.
C7_AlreadyExistsNoEffect ==
    [][\A t \in Threads :
          OnExistingTriple(t) =>
              /\ UNCHANGED <<store, local_ids, objects>>
              /\ ~session'[t]
              /\ cmds'[t] = {}
              /\ (pc[t] = "exists" /\ pc'[t] # "exists") =>
                     /\ pc'[t] = "ret"
                     /\ result'[t] \in {"AlreadyExists", "KeyInfoManagerError"}
              /\ pc[t] = "ret" => result[t] \in {"AlreadyExists", "KeyInfoManagerError"}
      ]_vars

\* A generate and an import call are turned away with AlreadyExists.
C7_Witness ==
    \E t \in Threads :
        /\ Returning(t)
        /\ op[t].kind \in {"generate", "import"}
        /\ result[t] = "AlreadyExists"

\* C8: a destroy call that finds one object under the identifier, destroys
\* it, and finds none at the second locate, returns Ok with the key info
\* removed, the identifier out of local_ids and no object left under it,
\* unless the removal from the store itself fails.
C8_DestroySingleObject ==
    \A t \in Threads :
        (/\ Returning(t)
         /\ op[t].kind = "destroy"
         /\ round[t] = 2
         /\ findres[t] = "DoesNotExist")
        => /\ result[t] \in {"Ok", "KeyInfoManagerError"}
           /\ result[t] = "Ok" =>
                  /\ ~StoreExists(op[t].triple)
                  /\ key_id[t] \notin local_ids
                  /\ ObjectsOf(key_id[t]) = {}
                  /\ cmds[t] = {"FindObjectsInit", "FindObjects",
                                "FindObjectsFinal", "DestroyObject"}

\* A destroy call returns Ok after the second locate found nothing.
C8_Witness ==
    \E t \in Threads :
        /\ Returning(t)
        /\ op[t].kind = "destroy"
        /\ round[t] = 2
        /\ findres[t] = "DoesNotExist"
        /\ result[t] = "Ok"

\* The number a big-endian byte string denotes when read as unsigned.
RECURSIVE Value(_)
Value(b) ==
    IF Len(b) = 0 THEN 0
    ELSE 256 * Value(SubSeq(b, 1, Len(b) - 1)) + b[Len(b)]

RECURSIVE Pow256(_)
Pow256(k) == IF k = 0 THEN 1 ELSE 256 * Pow256(k - 1)

\* The number the content bytes of an INTEGER denote (two's complement).
SignedValue(b) ==
    IF Len(b) > 0 /\ b[1] >= 128 THEN Value(b) - Pow256(Len(b)) ELSE Value(b)

\* Position of the most significant set bit of v (0 for v = 0).
RECURSIVE BitLength(_)
BitLength(v) == IF v = 0 THEN 0 ELSE 1 + BitLength(v \div 2)

\* Number of bytes of the shortest unsigned big-endian encoding of v.
RECURSIVE ByteLength(_)
ByteLength(v) == IF v < 256 THEN 1 ELSE 1 + ByteLength(v \div 256)

\* The call of t imports decodable key data.
ImportsDecodable(t) ==
    /\ op[t].kind = "import"
    /\ op[t].key_type = "RsaPublicKey"
    /\ op[t].data.wf

\* The call of t imports a key whose modulus and exponent are not negative.
ImportsNonNegative(t) ==
    /\ ImportsDecodable(t)
    /\ SignedValue(op[t].data.n) >= 0
    /\ SignedValue(op[t].data.e) >= 0

\* C9: an import of decodable key data whose modulus or public exponent
\* denotes a negative number, made on a free triple, returns InvalidArgument
\* with no key info left for the triple and the reserved identifier out of
\* local_ids; the store's own error is returned instead when the insert or
\* the compensating removal fails in the store.
C9_NegativeImportRejected ==
    \A t \in Threads :
        (/\ Returning(t)
         /\ ImportsDecodable(t)
         /\ key_id[t] # NoId
         /\ (SignedValue(op[t].data.n) < 0 \/ SignedValue(op[t].data.e) < 0))
        => /\ result[t] \in {"InvalidArgument", "KeyInfoManagerError"}
           /\ result[t] = "InvalidArgument" =>
                  /\ ~StoreExists(op[t].triple)
                  /\ key_id[t] \notin local_ids
                  /\ ~session[t]
                  /\ cmds[t] = {}

\* An import with a negative public exponent returns InvalidArgument.
C9_Witness ==
    \E t \in Threads :
        /\ Returning(t)
        /\ ImportsDecodable(t)
        /\ SignedValue(op[t].data.n) >= 0
        /\ SignedValue(op[t].data.e) < 0
        /\ result[t] = "InvalidArgument"

\* The import of t has passed the cross-check of attributes.bits.
PassedBitsCheck(t) ==
    /\ ImportsNonNegative(t)
    /\ pc[t] \in {"session_rw", "imp_create"}

\* The import of t was turned away by the cross-check of attributes.bits.
FailedBitsCheck(t) ==
    /\ ImportsNonNegative(t)
    /\ Returning(t)
    /\ key_id[t] # NoId
    /\ result[t] = "InvalidArgument"

\* C10 as stated: with attributes.bits non-zero, the import passes the
\* cross-check exactly when bits equals the position of the most significant
\* set bit of the modulus.
C10_BitsEqualBitLength ==
    \A t \in Threads :
        /\ PassedBitsCheck(t) =>
               \/ op[t].bits = 0
               \/ op[t].bits = BitLength(Value(op[t].data.n))
        /\ FailedBitsCheck(t) =>
               /\ op[t].bits # 0
               /\ op[t].bits # BitLength(Value(op[t].data.n))

\* C10, amended: with attributes.bits non-zero, the import passes the
\* cross-check exactly when bits equals eight times the number of bytes of
\* the modulus (its bit length rounded up to whole bytes), and is turned
\* away with InvalidArgument otherwise; with bits zero it always passes.
C10_BitsEqualByteSize ==
    \A t \in Threads :
        /\ PassedBitsCheck(t) =>
               \/ op[t].bits = 0
               \/ op[t].bits = 8 * ByteLength(Value(op[t].data.n))
        /\ FailedBitsCheck(t) =>
               /\ op[t].bits # 0
               /\ op[t].bits # 8 * ByteLength(Value(op[t].data.n))

\* An import passes with bits = 8 although its modulus is 7 bits long.
C10_Witness ==
    \E t \in Threads :
        /\ PassedBitsCheck(t)
        /\ op[t].bits = 8
        /\ BitLength(Value(op[t].data.n)) = 7

\* C11: when an export returns Ok for a triple whose key info and token
\* object come from a successful import of key data K with non-negative
\* modulus and public exponent, the modulus and the public exponent of the
\* exported key denote the same numbers as those of K.
C11_RoundTrip ==
    \A t \in Threads :
        (/\ Returning(t)
         /\ op[t].kind = "export"
         /\ result[t] = "Ok"
         /\ op[t].triple \in DOMAIN imported
         /\ SignedValue(imported[op[t].triple].n) >= 0
         /\ SignedValue(imported[op[t].triple].e) >= 0)
        => /\ SignedValue(out[t].n) = SignedValue(imported[op[t].triple].n)
           /\ SignedValue(out[t].e) = SignedValue(imported[op[t].triple].e)

\* An export returns a key whose modulus was imported with a sign byte in
\* front of a set most significant bit.
C11_Witness ==
    \E t \in Threads :
        /\ Returning(t)
        /\ op[t].kind = "export"
        /\ result[t] = "Ok"
        /\ op[t].triple \in DOMAIN imported
        /\ Len(imported[op[t].triple].n) = 2
        /\ imported[op[t].triple].n[1] = 0
        /\ imported[op[t].triple].n[2] >= 128

\* C12: when the compensating removal of a generate or import call leaves
\* the reserved key info in the store, the call returns
\* KeyInfoManagerError, the store's error, in place of the error of the step
\* that failed; a call that went through compensation never returns Ok.
C12_CompensationFailurePropagated ==
    [][\A t \in Threads :
          (pc[t] = "compensate" /\ pc'[t] # "compensate") =>
              /\ pc'[t] = "ret"
              /\ result'[t] # "Ok"
              /\ IF StoreExists(op[t].triple)'
                 THEN result'[t] = "KeyInfoManagerError"
                 ELSE result'[t] = result[t]
      ]_vars

\* A generate or import call returns the store's error with its reserved key
\* info still in the store.
C12_Witness ==
    \E t \in Threads :
        /\ Returning(t)
        /\ op[t].kind \in {"generate", "import"}
        /\ result[t] = "KeyInfoManagerError"
        /\ StoreExists(op[t].triple)
        /\ store[op[t].triple].id = key_id[t]

\* C13: every generate, import, export and destroy call that has started
\* eventually returns and leaves the worker thread free, whatever local_ids
\* holds when create_key_id draws the identifier.
C13_EveryCallReturns ==
    \A t \in Threads : (pc[t] # "idle") ~> (pc[t] = "idle")

\* C14: when remove_key_id has returned Ok for a key triple and an
\* identifier, the next call with the same key triple and identifier leaves
\* the store and local_ids as they are and returns Ok, or the store's own
\* error when the store fails.
C14_RemoveTwice ==
    [][\A t \in Threads :
          (/\ pc[t] = "remove"
           /\ round[t] = 1
           /\ result[t] = "Ok"
           /\ round'[t] = 2)
          => /\ result'[t] \in {"Ok", "KeyInfoManagerError"}
             /\ store' = store
             /\ local_ids' = local_ids
      ]_vars

\* Both calls returned Ok, the first having removed the key info of a
\* generated key pair and evicted its identifier.
C14_Witness ==
    \E t \in Threads :
        /\ pc[t] = "removed"
        /\ round[t] = 2
        /\ result[t] = "Ok"
        /\ ObjectsOf(key_id[t]) # {}
        /\ key_id[t] \notin local_ids
        /\ ~StoreExists(op[t].triple)

\* The last destroy_object command of t failed: the object find_key returned
\* is still on the token.
DestroyCommandFailed(t) ==
    /\ findres[t] = "Ok"
    /\ found[t] # {}
    /\ found[t] \subseteq objects

\* C15: a destroy call that has looked up its key info returns the error of
\* find_key when the first locate fails (DoesNotExist included) or the second
\* fails with anything but DoesNotExist, and the token's error when a
\* destroy_object command fails; whenever it returns an error the key info is
\* still stored under the triple and its identifier still in local_ids, and
\* it returns Ok only with the second locate behind it.
C15_DestroyRemovesLast ==
    \A t \in Threads :
        (/\ Returning(t)
         /\ op[t].kind = "destroy"
         /\ key_id[t] # NoId)
        => /\ (findres[t] = "TokenError"
                  \/ (round[t] = 1 /\ findres[t] = "DoesNotExist"))
               => result[t] = findres[t]
           /\ DestroyCommandFailed(t) => result[t] = "TokenError"
           /\ result[t] # "Ok" =>
                  /\ StoreExists(op[t].triple)
                  /\ store[op[t].triple].id = key_id[t]
                  /\ key_id[t] \in local_ids
           /\ result[t] = "Ok" =>
                  /\ round[t] = 2
                  /\ "DestroyObject" \in cmds[t]
                  /\ ~StoreExists(op[t].triple)

\* A destroy call returns the token's error of the second locate, one object
\* destroyed and the key info still in place.
C15_Witness ==
    \E t \in Threads :
        /\ Returning(t)
        /\ op[t].kind = "destroy"
        /\ round[t] = 2
        /\ findres[t] = "TokenError"
        /\ result[t] = "TokenError"
        /\ StoreExists(op[t].triple)

\* C16: when find_key has returned, no search started by find_objects_init
\* is left open on the session: find_objects_final was issued, whether
\* find_objects returned an object, none, or an error.
C16_SearchFinalized ==
    \A t \in Threads : pc[t] = "found" => ~srch[t]

\* The identifiers held by the key infos in the store.
StoredIds == {store[tr].id : tr \in DOMAIN store}

\* C17: from the empty store and the empty local_ids, whenever no generate,
\* import or destroy call holds the write locks, local_ids is exactly the
\* set of identifiers held by the key infos in the store.
C17_IndexMirrorsStore ==
    (store_lock.w = {} /\ ids_lock = {}) => local_ids = StoredIds

\* No write lock is held, the store holds one key info and local_ids its
\* identifier, and a destroy call is about to take the locks.
C17_Witness ==
    /\ store_lock.w = {}
    /\ ids_lock = {}
    /\ Cardinality(DOMAIN store) = 1
    /\ Cardinality(local_ids) = 1
    /\ \E t \in Threads : pc[t] = "lock_store" /\ op[t].kind = "destroy"

\* C18: when the provider starts with local_ids empty on a store that holds
\* key infos, then after any generate and import calls no two key infos in
\* the store hold the same identifier, and an export or destroy call that
\* has looked up a stored triple works with the identifier of its key info.
C18_ColdIndexSafe ==
    /\ \A tr1, tr2 \in DOMAIN store :
           store[tr1].id = store[tr2].id => tr1 = tr2
    /\ \A t \in Threads :
           (op[t].kind \in {"export", "destroy"} /\ pc[t] = "session")
           => /\ StoreExists(op[t].triple)
              /\ key_id[t] = store[op[t].triple].id

\* t has passed the existence check and is inside create_key_id.
Reserving(t) ==
    /\ op[t].kind \in {"generate", "import"}
    /\ pc[t] \in {"create_random", "create_while", "create_insert"}

\* C19: a generate or import call inside create_key_id still holds both
\* write locks and its triple has no key info, so the insert overwrites
\* nothing; of the generate and import calls on one triple at most one is
\* past the existence check, and one that comes to the check with the key
\* info in place returns AlreadyExists (the store's own error if the check
\* could not be made).
C19_ReservationNeverOverwrites ==
    /\ \A t \in Threads :
           Reserving(t) =>
               /\ ~StoreExists(op[t].triple)
               /\ store_lock.w = {t}
               /\ ids_lock = {t}
    /\ \A t, u \in Threads :
           (/\ t # u
            /\ Reserving(t) \/ InFlight(t)
            /\ op[u].kind \in {"generate", "import"}
            /\ op[u].triple = op[t].triple)
           => ~(Reserving(u) \/ InFlight(u) \/ pc[u] = "exists")
    /\ \A u \in Threads :
           (/\ Returning(u)
            /\ op[u].kind \in {"generate", "import"}
            /\ ~TypeRejected(u)
            /\ key_id[u] = NoId
            /\ StoreExists(op[u].triple))
           => result[u] \in {"AlreadyExists", "KeyInfoManagerError"}

\* One call is about to insert the key info of a triple while another
\* generate or import call on the same triple waits for the store lock.
C19_Witness ==
    \E t, u \in Threads :
        /\ pc[t] = "create_insert"
        /\ pc[u] = "lock_store"
        /\ op[u].kind \in {"generate", "import"}
        /\ op[u].triple = op[t].triple

\* t waits for a lock that is not granted in this state.
Blocked(t) ==
    /\ pc[t] \in {"lock_store", "lock_ids", "read_store"}
    /\ ~ENABLED (LockStoreWrite(t) \/ LockIdsWrite(t) \/ LockStoreRead(t))

\* C20: a call waits for the write lock of local_ids, and holds it, only
\* while holding the write lock of key_info_store; an export holds no write
\* lock; a thread that runs no call holds no lock; and in no state are all
\* the calls in progress waiting for a lock.
C20_NoDeadlock ==
    /\ \A t \in Threads :
           /\ pc[t] = "lock_ids" => t \in store_lock.w
           /\ t \in ids_lock => t \in store_lock.w
           /\ op[t].kind = "export" => (t \notin store_lock.w /\ t \notin ids_lock)
           /\ pc[t] = "idle" =>
                  /\ t \notin store_lock.w
                  /\ t \notin store_lock.r
                  /\ t \notin ids_lock
    /\ (\E t \in Threads : pc[t] # "idle")
           => \E t \in Threads : pc[t] # "idle" /\ ~Blocked(t)

\* A destroy call waits for the store lock that an export holds for reading.
C20_Witness ==
    \E t, u \in Threads :
        /\ op[t].kind = "destroy"
        /\ Blocked(t)
        /\ op[u].kind = "export"
        /\ u \in store_lock.r

\* C21: no step of an export call, from the call to its return, changes the
\* key infos in the store, local_ids or the token objects, whatever the
\* outcome of the lookup, of the session, of find_key and of the attribute
\* queries; and while the call holds read access to the store no step of any
\* other call changes them either.
C21_ExportReadOnly ==
    [][\A t \in Threads :
          /\ ((op[t].kind = "export" \/ op'[t].kind = "export")
                 /\ pc'[t] # pc[t])
             => UNCHANGED <<store, local_ids, objects>>
          /\ (op[t].kind = "export" /\ t \in store_lock.r)
             => UNCHANGED <<store, local_ids, objects>>
      ]_vars

\* An export call that went through lookup, session, find_key and both
\* attribute queries returns CommunicationFailure, the key info and the
\* public key object still in place.
C21_Witness ==
    \E t \in Threads :
        /\ Returning(t)
        /\ op[t].kind = "export"
        /\ result[t] = "CommunicationFailure"
        /\ StoreExists(op[t].triple)
        /\ Matching(key_id[t], "PublicKey") # {}

=============================================================================
